---- MODULE Spec2Model ----
(***************************************************************************)
(* Model of packages/bot/src/utils/queue.py: RequestQueue, its worker task *)
(* and stop(), as scheduled by a single asyncio event loop.  A step of the *)
(* model is what one task runs between two suspension points.              *)
(***************************************************************************)
EXTENDS Integers, Sequences, FiniteSets, TLC

\* ------------------------------------------------------------------ bounds
Callers == 1..3            \* message.author.id
Owners == {1, 2}           \* the callers bot.is_owner answers True for
Cooldown == 3              \* the 3.0 of the rate limit
MaxTime == 6               \* last clock reading explored
MaxLive == 3               \* add_request calls and requests alive at once
MaxWorkers == 2            \* worker tasks ever created
MaxCalls == 3              \* add_request calls made in a run of Spec
FaultCalls == 2            \* add_request calls made in a run of FaultSpec
BurstCallers == 1..4       \* the callers of a run of BurstSpec
BurstCalls == 5            \* add_request calls made in a run of BurstSpec
Clients == 1..2            \* the clients of the database that call add_message
DbCalls == 3               \* add_message calls made in a run of DbSpec
MaxContent == 2            \* most tokens the tokenizer counts in a message
max_messages == 2          \* the parameter of add_message (25 by default)
max_tokens == 3            \* the parameter of add_message (4000 by default)
FallbackTokens == 100      \* the estimate for a message that does not encode
MaxInput == 3              \* longest list given to _apply_memory_limits in LimitsSpec
MaxCountLimit == 3         \* largest max_messages given to it in LimitsSpec
MaxTokenLimit == 4         \* largest max_tokens given to it in LimitsSpec
MaxCredit == 3             \* largest balance a run of CreditSpec starts with
MaxAmount == 2             \* largest amount a deduct_user_credit call asks for

NoReq == [id |-> 0, user_id |-> 0, is_owner |-> FALSE, timestamp |-> 0]
NoRet == [user |-> 0, res |-> "none", owner |-> FALSE, t |-> 0, remaining |-> 0]

VARIABLES
  now,                \* the last reading time.time() gave
  bot,                \* self._bot is not None
  queue,              \* self._queue: the heap list of asyncio.PriorityQueue
  processing_users,   \* self._processing_users
  user_last_request,  \* self._user_last_request, 0 where .get() defaults
  worker_task,        \* self._worker_task: index into tasks, 0 for None
  tasks,              \* the worker tasks created so far
  pending,            \* add_request calls suspended in await self.is_owner
  order,              \* ids of the live calls and requests, oldest call first
  stop,               \* the stop() call: idle, or waiting for a worker task
  budget,             \* add_request calls still to be made, -1 for no limit
  ret,                \* what the add_request that returned in this step returned
  memory,             \* the messages of the user's document in the memory collection
  db_calls,           \* the add_message call of each client, between its two operations
  acked,              \* the messages whose add_message returned True
  db_budget,          \* add_message calls still to be made
  limits,             \* a call of _apply_memory_limits: its arguments and its result
  credit,             \* the credit of the user's document in user_config
  initial_credit,     \* the credit before any deduct_user_credit
  deduct_calls,       \* the deduct_user_credit call of each client
  deducted            \* the sum of the amounts of the calls that returned True

msgvars == <<memory, db_calls, acked, db_budget>>

creditvars == <<credit, initial_credit, deduct_calls, deducted>>

dbvars == <<msgvars, limits, creditvars>>

vars == <<now, bot, queue, processing_users, user_last_request, worker_task,
          tasks, pending, order, stop, budget, ret, dbvars>>

\* __lt__ without the owner test
LtTimestampOnly(a, b) == a.timestamp < b.timestamp

\* ------------------------------------------------------------ QueuedRequest
\* QueuedRequest.__lt__
Lt(a, b) ==
  IF a.is_owner # b.is_owner THEN a.is_owner ELSE a.timestamp < b.timestamp

\* --------------------------------------- asyncio.PriorityQueue (heapq list)
\* Positions are 0-based as in heapq; heap[p + 1] is the item at position p.
RECURSIVE SiftDown(_, _, _, _)
SiftDown(heap, startpos, pos, newitem) ==
  LET parentpos == (pos - 1) \div 2 IN
  IF pos > startpos /\ Lt(newitem, heap[parentpos + 1])
  THEN SiftDown([heap EXCEPT ![pos + 1] = heap[parentpos + 1]],
                startpos, parentpos, newitem)
  ELSE [heap EXCEPT ![pos + 1] = newitem]

RECURSIVE SiftUp(_, _, _)
SiftUp(heap, pos, newitem) ==
  LET endpos == Len(heap)
      childpos == 2 * pos + 1
      rightpos == childpos + 1
      smaller == IF rightpos < endpos /\ ~Lt(heap[childpos + 1], heap[rightpos + 1])
                 THEN rightpos ELSE childpos
  IN IF childpos < endpos
     THEN SiftUp([heap EXCEPT ![pos + 1] = heap[smaller + 1]], smaller, newitem)
     ELSE SiftDown(heap, 0, pos, newitem)

\* put_nowait: heappush
HeapPush(heap, item) == SiftDown(Append(heap, item), 0, Len(heap), item)

\* get_nowait: the item heappop returns, and the heap it leaves
HeapTop(heap) == heap[1]

HeapRest(heap) ==
  LET lastelt == heap[Len(heap)]
      rest == SubSeq(heap, 1, Len(heap) - 1)
  IN IF rest = <<>> THEN <<>> ELSE SiftUp([rest EXCEPT ![1] = lastelt], 0, lastelt)

\* the drain loop of add_request: temp_queue_items, in the order got
RECURSIVE DrainItems(_)
DrainItems(heap) ==
  IF heap = <<>> THEN <<>> ELSE <<HeapTop(heap)>> \o DrainItems(HeapRest(heap))

\* the put-back loop of add_request
RECURSIVE PutAll(_, _)
PutAll(heap, items) ==
  IF items = <<>> THEN heap ELSE PutAll(HeapPush(heap, Head(items)), Tail(items))

\* the items put back into a queue that was not emptied
DrainAndRefillKeeps(heap) == PutAll(heap, DrainItems(heap))

DrainAndRefill(heap) == PutAll(<<>>, DrainItems(heap))

\* ------------------------------------------------------------------ helpers
Range(s) == {s[i] : i \in 1..Len(s)}

Remove(s, id) == SelectSeq(s, LAMBDA x : x # id)

QueuedUsers(heap) == {heap[i].user_id : i \in 1..Len(heap)}

QueuedIds(heap) == {heap[i].id : i \in 1..Len(heap)}

\* a run with a budget of calls needs no other limit on the requests alive
FreeIds == (1..(IF budget < 0 THEN MaxLive ELSE Len(order) + 1)) \ Range(order)

NewId ==
  IF FreeIds = {} THEN 0 ELSE CHOOSE i \in FreeIds : \A j \in FreeIds : i <= j

\* a task is created at every accepted request
NoWorkerAlways(wt, ts) == TRUE

\* the test of the task inverted: a task is created only to replace a done one
NoWorkerInverted(wt, ts) == wt # 0 /\ ts[wt].state = "done"

\* self._worker_task is None or self._worker_task.done()
NoWorker(wt, ts) == wt = 0 \/ ts[wt].state = "done"

\* the comparison with the cooldown taken as <=
RateLimitedInclusive(is_owner, current_time, last_request) ==
  ~is_owner /\ current_time - last_request <= Cooldown

\* the rate limit applied to the owner too
RateLimitedOwnerToo(is_owner, current_time, last_request) ==
  current_time - last_request < Cooldown

\* current_time - last_request < 3.0, for callers that are not the owner
RateLimited(is_owner, current_time, last_request) ==
  ~is_owner /\ current_time - last_request < Cooldown

\* --------------------------------------------------------------------- Init
NoMessage == [id |-> 0, content |-> 0]

\* the memory collection before any add_message: no document, no call
MemoryStart ==
  /\ memory = <<>>
  /\ db_calls = [t \in Clients |-> [pc |-> "idle", message |-> NoMessage,
                                     updated_messages |-> <<>>]]
  /\ acked = {}
  /\ db_budget = DbCalls

NoLimits == [messages |-> <<>>, max_messages |-> 0, max_tokens |-> 0,
             called |-> TRUE, result |-> <<>>]

NoDeduct == [pc |-> "idle", amount |-> 0, current_credit |-> 0, ret |-> "none"]

\* the user_config collection with a balance of c and no call under way
CreditStart(c) ==
  /\ credit = c
  /\ initial_credit = c
  /\ deduct_calls = [t \in Clients |-> NoDeduct]
  /\ deducted = 0

\* the database before any call
DbStart ==
  /\ MemoryStart
  /\ limits = NoLimits
  /\ CreditStart(0)

Init ==
  /\ now = Cooldown
  /\ bot = FALSE
  /\ queue = <<>>
  /\ processing_users = {}
  /\ user_last_request = [u \in Callers |-> 0]
  /\ worker_task = 0
  /\ tasks = <<>>
  /\ pending = {}
  /\ order = <<>>
  /\ stop = [pc |-> "idle", task |-> 0]
  /\ budget = MaxCalls
  /\ ret = NoRet
  /\ DbStart

\* ------------------------------------------------------------- environment
SetBot ==
  /\ UNCHANGED dbvars
  /\ ~bot
  /\ bot' = TRUE
  /\ ret' = NoRet
  /\ UNCHANGED <<now, queue, processing_users, user_last_request, worker_task,
                 tasks, pending, order, stop, budget>>

\* -------------------------------------------------------------- add_request
Result(c, res, is_owner, remaining) ==
  [user |-> c.user_id, res |-> res, owner |-> is_owner, t |-> c.timestamp,
   remaining |-> remaining]

\* the admission with the caller's entry written before the rate limit is
\* looked at
AdmitStampsFirst(c, is_owner, q, ord) ==
  LET last_request == user_last_request[c.user_id]
      request == [id |-> c.id, user_id |-> c.user_id, is_owner |-> is_owner,
                  timestamp |-> c.timestamp]
  IN /\ user_last_request' = [user_last_request EXCEPT ![c.user_id] = c.timestamp]
     /\ IF RateLimited(is_owner, c.timestamp, last_request)
        THEN /\ ret' = Result(c, "rate_limited", is_owner,
                              Cooldown - (c.timestamp - last_request))
             /\ queue' = q
             /\ order' = Remove(ord, c.id)
             /\ UNCHANGED <<worker_task, tasks>>
        ELSE /\ queue' = HeapPush(q, request)
             /\ order' = ord
             /\ IF NoWorker(worker_task, tasks)
                THEN /\ Len(tasks) < MaxWorkers
                     /\ tasks' = Append(tasks, [state |-> "created", request |-> NoReq,
                                                must_cancel |-> FALSE])
                     /\ worker_task' = Len(tasks) + 1
                ELSE UNCHANGED <<worker_task, tasks>>
             /\ ret' = Result(c, "accepted", is_owner, 0)

\* Lines 112-138: the rate limit, the put and the start of the worker, for the
\* call c whose id is in ord, on the queue q.
Admit(c, is_owner, q, ord) ==
  LET last_request == user_last_request[c.user_id]
      request == [id |-> c.id, user_id |-> c.user_id, is_owner |-> is_owner,
                  timestamp |-> c.timestamp]
  IN IF RateLimited(is_owner, c.timestamp, last_request)
     THEN /\ ret' = Result(c, "rate_limited", is_owner,
                           Cooldown - (c.timestamp - last_request))
          /\ queue' = q
          /\ order' = Remove(ord, c.id)
          /\ UNCHANGED <<user_last_request, worker_task, tasks>>
     ELSE /\ queue' = HeapPush(q, request)
          /\ user_last_request' = [user_last_request EXCEPT ![c.user_id] = c.timestamp]
          /\ order' = ord
          /\ IF NoWorker(worker_task, tasks)
             THEN /\ Len(tasks) < MaxWorkers
                  /\ tasks' = Append(tasks, [state |-> "created", request |-> NoReq,
                                             must_cancel |-> FALSE])
                  /\ worker_task' = Len(tasks) + 1
             ELSE UNCHANGED <<worker_task, tasks>>
          /\ ret' = Result(c, "accepted", is_owner, 0)

\* A call of add_request, up to its return or to its suspension in is_owner.
\* current_time is what time.time() gives it: no less than the last reading.
AddRequest(u, current_time) ==
  LET c == [id |-> NewId, user_id |-> u, timestamp |-> current_time]
      refilled == DrainAndRefill(queue)
  IN
  /\ UNCHANGED dbvars
  /\ budget # 0
  /\ budget' = IF budget > 0 THEN budget - 1 ELSE budget
  /\ now' = current_time
  /\ UNCHANGED <<bot, processing_users, stop>>
  /\ IF u \in processing_users
     THEN /\ ret' = Result(c, "being_processed", FALSE, 0)
          /\ UNCHANGED <<queue, user_last_request, worker_task, tasks, pending, order>>
     ELSE IF u \in QueuedUsers(queue)
     THEN /\ ret' = Result(c, "in_queue", FALSE, 0)
          /\ queue' = refilled
          /\ UNCHANGED <<user_last_request, worker_task, tasks, pending, order>>
     ELSE /\ FreeIds # {}
          /\ IF bot
             THEN /\ pending' = pending \cup {c}
                  /\ order' = Append(order, c.id)
                  /\ queue' = refilled
                  /\ ret' = NoRet
                  /\ UNCHANGED <<user_last_request, worker_task, tasks>>
             ELSE /\ Admit(c, FALSE, refilled, Append(order, c.id))
                  /\ UNCHANGED pending

\* self._bot.is_owner returns or raises, and add_request runs to its return.
\* a privilege check that raises answers True
IsOwnerReturnFailsOpen(c, raised) ==
  /\ UNCHANGED dbvars
  /\ c \in pending
  /\ pending' = pending \ {c}
  /\ Admit(c, c.user_id \in Owners \/ raised, queue, order)
  /\ UNCHANGED <<now, bot, processing_users, stop, budget>>

IsOwnerReturn(c, raised) ==
  /\ UNCHANGED dbvars
  /\ c \in pending
  /\ pending' = pending \ {c}
  /\ Admit(c, c.user_id \in Owners /\ ~raised, queue, order)
  /\ UNCHANGED <<now, bot, processing_users, stop, budget>>

\* ------------------------------------------------------------------ _worker
\* stop() is about to resume: the task it awaits is done.  The event loop runs
\* callbacks in the order they were scheduled, so it resumes before the first
\* step of any task created afterwards.
StopResumes == stop.pc = "waiting" /\ tasks[stop.task].state = "done"

\* the request taken without its caller being marked as in service
DequeueUnmarked(w, P) ==
  LET request == HeapTop(queue) IN
  /\ queue' = HeapRest(queue)
  /\ processing_users' = P
  /\ tasks' = [tasks EXCEPT ![w] = [state |-> "exec", request |-> request,
                                    must_cancel |-> FALSE]]

\* Lines 149-157: get() returns an item, the user is marked, the callback is
\* entered.  P is self._processing_users before the add.
Dequeue(w, P) ==
  LET request == HeapTop(queue) IN
  /\ queue' = HeapRest(queue)
  /\ processing_users' = P \cup {request.user_id}
  /\ tasks' = [tasks EXCEPT ![w] = [state |-> "exec", request |-> request,
                                    must_cancel |-> FALSE]]

WorkerGet(w) ==
  /\ UNCHANGED dbvars
  /\ tasks[w].state \in {"created", "idle"}
  /\ ~tasks[w].must_cancel
  /\ tasks[w].state = "created" => ~StopResumes
  /\ queue # <<>>
  /\ Dequeue(w, processing_users)
  /\ ret' = NoRet
  /\ UNCHANGED <<now, bot, user_last_request, worker_task, pending, order, stop, budget>>

\* the discard of the finally block left out
ReleaseSkipped(P, u) == P

\* The finally block, then the next iteration up to its suspension: in get()
\* when the queue is empty, in the callback of the next request otherwise.
Release(P, u) == P \ {u}

FinallyAndLoop(w) ==
  LET P == Release(processing_users, tasks[w].request.user_id) IN
  /\ order' = Remove(order, tasks[w].request.id)
  /\ IF queue # <<>>
     THEN Dequeue(w, P)
     ELSE /\ processing_users' = P
          /\ tasks' = [tasks EXCEPT ![w] = [state |-> "idle", request |-> NoReq,
                                            must_cancel |-> FALSE]]
          /\ UNCHANGED queue
  /\ ret' = NoRet
  /\ UNCHANGED <<now, bot, user_last_request, worker_task, pending, stop, budget>>

CallbackReturn(w) ==
  /\ UNCHANGED dbvars
  /\ tasks[w].state = "exec"
  /\ ~tasks[w].must_cancel
  /\ FinallyAndLoop(w)

\* the exception of the callback ends the worker task
CallbackRaiseExits(w) ==
  /\ UNCHANGED dbvars
  /\ tasks[w].state = "exec"
  /\ ~tasks[w].must_cancel
  /\ tasks' = [tasks EXCEPT ![w] = [state |-> "done", request |-> NoReq,
                                    must_cancel |-> FALSE]]
  /\ processing_users' = processing_users \ {tasks[w].request.user_id}
  /\ order' = Remove(order, tasks[w].request.id)
  /\ ret' = NoRet
  /\ UNCHANGED <<now, bot, queue, user_last_request, worker_task, pending, stop, budget>>

\* The callback raises an Exception: the worker awaits channel.send.
CallbackRaise(w) ==
  /\ UNCHANGED dbvars
  /\ tasks[w].state = "exec"
  /\ ~tasks[w].must_cancel
  /\ tasks' = [tasks EXCEPT ![w].state = "report"]
  /\ ret' = NoRet
  /\ UNCHANGED <<now, bot, queue, processing_users, user_last_request, worker_task,
                 pending, order, stop, budget>>

\* channel.send returns, or raises an Exception that is logged.
SendReturn(w, raised) ==
  /\ UNCHANGED dbvars
  /\ tasks[w].state = "report"
  /\ ~tasks[w].must_cancel
  /\ FinallyAndLoop(w)

\* CancelledError is thrown into the task where it is suspended.
WorkerCancelled(w) ==
  /\ UNCHANGED dbvars
  /\ tasks[w].state # "done"
  /\ tasks[w].must_cancel
  /\ tasks' = [tasks EXCEPT ![w] = [state |-> "done", request |-> NoReq,
                                    must_cancel |-> FALSE]]
  /\ IF tasks[w].state \in {"exec", "report"}
     THEN /\ processing_users' = Release(processing_users, tasks[w].request.user_id)
          /\ order' = Remove(order, tasks[w].request.id)
     ELSE UNCHANGED <<processing_users, order>>
  /\ ret' = NoRet
  /\ UNCHANGED <<now, bot, queue, user_last_request, worker_task, pending, stop, budget>>

\* --------------------------------------------------------------------- stop
\* the in-service set cleared and the queue left as it is
ClearAllKeepsQueue ==
  /\ processing_users' = {}
  /\ UNCHANGED <<queue, order>>

\* Lines 193-203
ClearAll ==
  /\ processing_users' = {}
  /\ queue' = <<>>
  /\ order' = SelectSeq(order, LAMBDA x : x \notin QueuedIds(queue))

StopBegin ==
  /\ UNCHANGED dbvars
  /\ stop.pc = "idle"
  /\ IF ~NoWorker(worker_task, tasks)
     THEN /\ tasks' = [tasks EXCEPT ![worker_task].must_cancel = TRUE]
          /\ stop' = [pc |-> "waiting", task |-> worker_task]
          /\ UNCHANGED <<processing_users, queue, order>>
     ELSE /\ ClearAll
          /\ UNCHANGED <<tasks, stop>>
  /\ ret' = NoRet
  /\ UNCHANGED <<now, bot, user_last_request, worker_task, pending, budget>>

\* stop() that also forgets when the callers were last accepted
StopFinishResetsTable ==
  /\ UNCHANGED dbvars
  /\ StopResumes
  /\ ClearAll
  /\ stop' = [pc |-> "idle", task |-> 0]
  /\ ret' = NoRet
  /\ user_last_request' = [u \in DOMAIN user_last_request |-> 0]
  /\ UNCHANGED <<now, bot, worker_task, tasks, pending, budget>>

StopFinish ==
  /\ UNCHANGED dbvars
  /\ StopResumes
  /\ ClearAll
  /\ stop' = [pc |-> "idle", task |-> 0]
  /\ ret' = NoRet
  /\ UNCHANGED <<now, bot, user_last_request, worker_task, tasks, pending, budget>>

\* --------------------------------------------------------------------- Next
Submit ==
  \/ SetBot
  \/ \E u \in Callers, current_time \in now..MaxTime : AddRequest(u, current_time)
  \/ \E c \in pending, raised \in BOOLEAN : IsOwnerReturn(c, raised)

Serve ==
  \/ \E w \in 1..Len(tasks) : WorkerGet(w)
  \/ \E w \in 1..Len(tasks) : CallbackReturn(w)
  \/ \E w \in 1..Len(tasks) : CallbackRaise(w)
  \/ \E w \in 1..Len(tasks), raised \in BOOLEAN : SendReturn(w, raised)

Next ==
  \/ Submit
  \/ Serve
  \/ \E w \in 1..Len(tasks) : WorkerCancelled(w)
  \/ StopBegin
  \/ StopFinish

Spec == Init /\ [][Next]_vars

\* stop() is never called and add_request is called without limit, from the
\* state in which the bot is set and the clock has reached LiveStart; the
\* event loop runs every task that is ready, and every callback and every
\* error report comes to an end.
LiveStart == MaxTime - 1

LiveInit ==
  /\ now = LiveStart
  /\ bot = TRUE
  /\ queue = <<>>
  /\ processing_users = {}
  /\ user_last_request = [u \in Callers |-> 0]
  /\ worker_task = 0
  /\ tasks = <<>>
  /\ pending = {}
  /\ order = <<>>
  /\ stop = [pc |-> "idle", task |-> 0]
  /\ budget = -1
  /\ ret = NoRet
  /\ DbStart

LiveNext ==
  \/ \E u \in Callers, current_time \in now..MaxTime : AddRequest(u, current_time)
  \/ \E c \in pending : IsOwnerReturn(c, FALSE)
  \/ Serve

Fairness ==
  /\ WF_vars(\E w \in 1..Len(tasks) : WorkerGet(w))
  /\ WF_vars(\E w \in 1..Len(tasks) : CallbackReturn(w) \/ CallbackRaise(w))
  /\ WF_vars(\E w \in 1..Len(tasks), raised \in BOOLEAN : SendReturn(w, raised))

LiveSpec == LiveInit /\ [][LiveNext]_vars /\ Fairness

\* A burst: add_request is called BurstCalls times by ordinary callers while
\* the clock gives one and the same reading, so that the requests that wait
\* have equal timestamps; the bot is not set and stop() is not called.
BurstInit ==
  /\ now = MaxTime
  /\ bot = FALSE
  /\ queue = <<>>
  /\ processing_users = {}
  /\ user_last_request = [u \in BurstCallers |-> 0]
  /\ worker_task = 0
  /\ tasks = <<>>
  /\ pending = {}
  /\ order = <<>>
  /\ stop = [pc |-> "idle", task |-> 0]
  /\ budget = BurstCalls
  /\ ret = NoRet
  /\ DbStart

BurstNext ==
  \/ \E u \in BurstCallers, current_time \in now..MaxTime : AddRequest(u, current_time)
  \/ Serve

BurstSpec == BurstInit /\ [][BurstNext]_vars

\* ------------------------------------------------------------------- faults
\* Lines 156-177: the callback, or the report of its failure, raises
\* asyncio.CancelledError although stop() did not cancel the task (it awaited
\* something that was cancelled).  CancelledError is not an Exception: line 159
\* or 166 does not catch it, the finally block runs, and line 175 catches it
\* and leaves the loop.
CallbackCancelled(w) ==
  /\ UNCHANGED dbvars
  /\ tasks[w].state \in {"exec", "report"}
  /\ ~tasks[w].must_cancel
  /\ processing_users' = Release(processing_users, tasks[w].request.user_id)
  /\ order' = Remove(order, tasks[w].request.id)
  /\ tasks' = [tasks EXCEPT ![w] = [state |-> "done", request |-> NoReq,
                                    must_cancel |-> FALSE]]
  /\ ret' = NoRet
  /\ UNCHANGED <<now, bot, queue, user_last_request, worker_task, pending, stop,
                 budget>>

\* Lines 146-149, 178-180: an Exception is raised in the loop outside the
\* callback, at the get(); the worker logs it and sleeps for 1 s.
InternalError(w) ==
  /\ UNCHANGED dbvars
  /\ tasks[w].state \in {"created", "idle"}
  /\ ~tasks[w].must_cancel
  /\ tasks[w].state = "created" => ~StopResumes
  /\ tasks' = [tasks EXCEPT ![w].state = "backoff"]
  /\ ret' = NoRet
  /\ UNCHANGED <<now, bot, queue, processing_users, user_last_request, worker_task,
                 pending, order, stop, budget>>

\* Line 180: the sleep is over, the loop goes back to the get()
BackoffReturn(w) ==
  /\ UNCHANGED dbvars
  /\ tasks[w].state = "backoff"
  /\ ~tasks[w].must_cancel
  /\ tasks' = [tasks EXCEPT ![w].state = "idle"]
  /\ ret' = NoRet
  /\ UNCHANGED <<now, bot, queue, processing_users, user_last_request, worker_task,
                 pending, order, stop, budget>>

\* The queue with the faults of its collaborators: FaultCalls calls of
\* add_request, and every step of Next.
FaultInit ==
  /\ now = Cooldown
  /\ bot = FALSE
  /\ queue = <<>>
  /\ processing_users = {}
  /\ user_last_request = [u \in Callers |-> 0]
  /\ worker_task = 0
  /\ tasks = <<>>
  /\ pending = {}
  /\ order = <<>>
  /\ stop = [pc |-> "idle", task |-> 0]
  /\ budget = FaultCalls
  /\ ret = NoRet
  /\ DbStart

FaultNext ==
  \/ Next
  \/ \E w \in 1..Len(tasks) : CallbackCancelled(w)
  \/ \E w \in 1..Len(tasks) : InternalError(w)
  \/ \E w \in 1..Len(tasks) : BackoffReturn(w)

FaultSpec == FaultInit /\ [][FaultNext]_vars

\* ------------------------------------------------------------- add_message
\* A message is its id and its content: the number of tokens the tokenizer
\* counts in it, or -1 when tokenizer.encode raises on it.
Contents == (0..MaxContent) \cup {-1}

\* lines 199-207: the tokens of a message, the fallback when encode raises
Tokens(msg) == IF msg.content = -1 THEN FallbackTokens ELSE msg.content

RECURSIVE TotalTokens(_)
TotalTokens(messages) ==
  IF messages = <<>> THEN 0
  ELSE Tokens(Head(messages)) + TotalTokens(Tail(messages))

\* messages[-n:] of Python for n >= 0: the whole list for n = 0
LastN(messages, n) ==
  IF n = 0 \/ n >= Len(messages) THEN messages
  ELSE SubSeq(messages, Len(messages) - n + 1, Len(messages))

\* lines 210-224: from messages[i] backwards, the messages kept in front of
\* final_messages while they fit in max_tok
RECURSIVE KeepRecent(_, _, _, _, _)
KeepRecent(messages, i, current_tokens, final_messages, max_tok) ==
  IF i = 0 THEN final_messages
  ELSE IF current_tokens + Tokens(messages[i]) <= max_tok
       THEN KeepRecent(messages, i - 1, current_tokens + Tokens(messages[i]),
                       <<messages[i]>> \o final_messages, max_tok)
       ELSE final_messages

\* _apply_memory_limits
ApplyMemoryLimits(messages, max_msgs, max_tok) ==
  IF messages = <<>> THEN messages
  ELSE LET counted == IF Len(messages) > max_msgs
                      THEN LastN(messages, max_msgs) ELSE messages
       IN IF TotalTokens(counted) > max_tok
          THEN KeepRecent(counted, Len(counted), 0, <<>>, max_tok)
          ELSE counted

queuevars == <<now, bot, queue, processing_users, user_last_request, worker_task,
               tasks, pending, order, stop, budget, ret>>

\* lines 146-156: find_one, the message appended, the limits applied
AddMessageFind(t, message) ==
  /\ db_calls[t].pc = "idle"
  /\ db_budget > 0
  /\ db_budget' = db_budget - 1
  /\ db_calls' = [db_calls EXCEPT ![t] =
       [pc |-> "update", message |-> message,
        updated_messages |->
          ApplyMemoryLimits(memory \o <<message>>, max_messages, max_tokens)]]
  /\ UNCHANGED <<memory, acked, queuevars, limits, creditvars>>

\* lines 159-177: find_one_and_update with $set of the whole list; True
AddMessageUpdate(t) ==
  /\ db_calls[t].pc = "update"
  /\ memory' = db_calls[t].updated_messages
  /\ acked' = acked \cup {db_calls[t].message}
  /\ db_calls' = [db_calls EXCEPT ![t] = [pc |-> "idle", message |-> NoMessage,
                                          updated_messages |-> <<>>]]
  /\ UNCHANGED <<db_budget, queuevars, limits, creditvars>>

\* lines 179-181: the update raises; False
AddMessageRaise(t) ==
  /\ db_calls[t].pc = "update"
  /\ db_calls' = [db_calls EXCEPT ![t] = [pc |-> "idle", message |-> NoMessage,
                                          updated_messages |-> <<>>]]
  /\ UNCHANGED <<memory, acked, db_budget, queuevars, limits, creditvars>>

\* the clients of the database call add_message for one user; the n-th call
\* made adds the message of id n
DbNext ==
  \/ \E t \in Clients, content \in Contents :
       AddMessageFind(t, [id |-> DbCalls - db_budget + 1, content |-> content])
  \/ \E t \in Clients : AddMessageUpdate(t)
  \/ \E t \in Clients : AddMessageRaise(t)

DbSpec == Init /\ [][DbNext]_vars

\* ---------------------------------------------------- _apply_memory_limits
\* the queue as __init__ leaves it
QueueStart ==
  /\ now = Cooldown
  /\ bot = FALSE
  /\ queue = <<>>
  /\ processing_users = {}
  /\ user_last_request = [u \in Callers |-> 0]
  /\ worker_task = 0
  /\ tasks = <<>>
  /\ pending = {}
  /\ order = <<>>
  /\ stop = [pc |-> "idle", task |-> 0]
  /\ budget = MaxCalls
  /\ ret = NoRet

\* the lists of at most MaxInput messages; the message at position i has id i
Inputs ==
  UNION {{[i \in 1..n |-> [id |-> i, content |-> f[i]]] : f \in [1..n -> Contents]} :
           n \in 0..MaxInput}

\* _apply_memory_limits is called once, on any list and any two limits
LimitsInit ==
  /\ QueueStart
  /\ MemoryStart
  /\ CreditStart(0)
  /\ \E messages \in Inputs, max_msgs \in 0..MaxCountLimit, max_tok \in 0..MaxTokenLimit :
       limits = [messages |-> messages, max_messages |-> max_msgs,
                 max_tokens |-> max_tok, called |-> FALSE, result |-> <<>>]

ApplyLimits ==
  /\ ~limits.called
  /\ limits' = [limits EXCEPT
       !.called = TRUE,
       !.result = ApplyMemoryLimits(limits.messages, limits.max_messages,
                                    limits.max_tokens)]
  /\ UNCHANGED <<queuevars, msgvars, creditvars>>

LimitsNext == ApplyLimits

LimitsSpec == LimitsInit /\ [][LimitsNext]_vars

\* ------------------------------------------------------ deduct_user_credit
\* the update without the test of the balance in its filter
DeductUpdateUnfiltered(t) ==
  /\ deduct_calls[t].pc = "update"
  /\ credit' = credit - deduct_calls[t].amount
  /\ deducted' = deducted + deduct_calls[t].amount
  /\ deduct_calls' = [deduct_calls EXCEPT ![t].pc = "idle", ![t].ret = "true"]
  /\ UNCHANGED <<initial_credit, queuevars, msgvars, limits>>

\* lines 604-608: get_user_config (which gives the credit 0 when its find_one
\* fails) and the test of the balance that was read
DeductRead(t, amount, read_fails) ==
  LET current_credit == IF read_fails THEN 0 ELSE credit IN
  /\ deduct_calls[t].pc = "idle"
  /\ deduct_calls' = [deduct_calls EXCEPT ![t] =
       IF current_credit < amount
       THEN [pc |-> "idle", amount |-> amount,
             current_credit |-> current_credit, ret |-> "false"]
       ELSE [pc |-> "update", amount |-> amount,
             current_credit |-> current_credit, ret |-> "none"]]
  /\ UNCHANGED <<credit, initial_credit, deducted, queuevars, msgvars, limits>>

\* lines 610-625: find_one_and_update with the filter credit >= amount and
\* $inc of -amount, one atomic operation of the database
DeductUpdate(t) ==
  /\ deduct_calls[t].pc = "update"
  /\ IF credit >= deduct_calls[t].amount
     THEN /\ credit' = credit - deduct_calls[t].amount
          /\ deducted' = deducted + deduct_calls[t].amount
          /\ deduct_calls' = [deduct_calls EXCEPT ![t].pc = "idle", ![t].ret = "true"]
     ELSE /\ deduct_calls' = [deduct_calls EXCEPT ![t].pc = "idle", ![t].ret = "false"]
          /\ UNCHANGED <<credit, deducted>>
  /\ UNCHANGED <<initial_credit, queuevars, msgvars, limits>>

\* lines 627-629: the update raises; False
DeductRaise(t) ==
  /\ deduct_calls[t].pc = "update"
  /\ deduct_calls' = [deduct_calls EXCEPT ![t].pc = "idle", ![t].ret = "false"]
  /\ UNCHANGED <<credit, initial_credit, deducted, queuevars, msgvars, limits>>

\* the clients call deduct_user_credit for one user, from any balance
CreditInit ==
  /\ QueueStart
  /\ MemoryStart
  /\ limits = NoLimits
  /\ \E c \in 0..MaxCredit : CreditStart(c)

CreditNext ==
  \/ \E t \in Clients, amount \in 1..MaxAmount, read_fails \in BOOLEAN :
       DeductRead(t, amount, read_fails)
  \/ \E t \in Clients : DeductUpdate(t)
  \/ \E t \in Clients : DeductRaise(t)

CreditSpec == CreditInit /\ [][CreditNext]_vars

\* ------------------------------------------------------- observed quantities
\* the requests of caller u that wait in the queue
QueuedOf(u) == {i \in 1..Len(queue) : queue[i].user_id = u}

\* the worker tasks that hold a request of caller u (callback or error report)
ServingOf(u) ==
  {w \in 1..Len(tasks) : tasks[w].state \in {"exec", "report"}
                         /\ tasks[w].request.user_id = u}

Outstanding(u) == Cardinality(QueuedOf(u)) + Cardinality(ServingOf(u))

Executing == {w \in 1..Len(tasks) : tasks[w].state \in {"exec", "report"}}

ActiveWorkers == {w \in 1..Len(tasks) : tasks[w].state # "done"}

\* In this step task w takes a request from the queue and enters its callback.
Dispatches(w) ==
  /\ tasks'[w].state = "exec"
  /\ tasks'[w].request # tasks[w].request

\* In this step task w, not cancelled, ends the work on the request it holds.
Finishes(w) ==
  /\ tasks[w].state \in {"exec", "report"}
  /\ tasks'[w].request # tasks[w].request

\* position of id in the order of submission
RECURSIVE IndexOf(_, _)
IndexOf(s, id) == IF s = <<>> \/ Head(s) = id THEN 1 ELSE 1 + IndexOf(Tail(s), id)

SubmittedBefore(a, b) == IndexOf(order, a) < IndexOf(order, b)

\* ------------------------------------------------------------------- claims
\* C1: single flight -- in every reachable state each caller has at most one
\* request that is waiting in the queue or in service.
C1_SingleFlight == \A u \in Callers : Outstanding(u) <= 1

\* C2: an add_request that returns while its caller has a request queued or in
\* service returns one of the two duplicate rejections: one that returned
\* Accepted or rate-limited found no other request of the caller outstanding.
C2_DuplicateRejected ==
  /\ ret.res = "rate_limited" => Outstanding(ret.user) = 0
  /\ ret.res = "accepted" => Outstanding(ret.user) = 1

\* C3: a call that is not the owner's and passed the duplicate checks is
\* rejected as rate-limited exactly when its timestamp is less than Cooldown
\* after the caller's last accepted timestamp, and accepted otherwise; so the
\* timestamps of a caller's accepted ordinary requests are Cooldown apart.
C3_RateLimit ==
  [][/\ (ret'.res = "rate_limited")
          => (~ret'.owner /\ ret'.t - user_last_request[ret'.user] < Cooldown
              /\ user_last_request' = user_last_request)
     /\ (ret'.res = "accepted" /\ ~ret'.owner)
          => (ret'.t - user_last_request[ret'.user] >= Cooldown
              /\ user_last_request'[ret'.user] = ret'.t)]_vars

C3_Witness ==
  /\ ret.res = "rate_limited"
  /\ ret.remaining > 0
  /\ user_last_request[ret.user] >= Cooldown

\* C4: whenever the worker takes a request from the queue while a privileged
\* request is waiting, the request it takes is privileged.
C4_Priority ==
  [][\A w \in 1..Len(tasks) :
       (Dispatches(w) /\ \E i \in 1..Len(queue) : queue[i].is_owner)
         => tasks'[w].request.is_owner]_vars

\* a privileged request is in service while an ordinary one with an earlier
\* timestamp is still waiting
C4_Witness ==
  \E w \in Executing : \E i \in 1..Len(queue) :
    /\ tasks[w].request.is_owner
    /\ ~queue[i].is_owner
    /\ queue[i].timestamp < tasks[w].request.timestamp

\* C5: of two waiting requests of one privilege class from distinct callers,
\* the one submitted first is dispatched first: the worker never takes a
\* request while one of its class, of another caller, submitted before it waits.
C5_FifoWithinClass ==
  [][\A w \in 1..Len(tasks) :
       Dispatches(w) =>
         \A i \in 1..Len(queue) :
           (/\ queue[i].is_owner = tasks'[w].request.is_owner
            /\ queue[i].user_id # tasks'[w].request.user_id)
             => ~SubmittedBefore(queue[i].id, tasks'[w].request.id)]_vars

\* C6: at most one request is in its callback, and the in-service set holds at
\* most one caller.
C6_Sequential ==
  /\ Cardinality(Executing) <= 1
  /\ Cardinality(processing_users) <= 1

C6_Witness ==
  \E w \in Executing : queue # <<>> /\ processing_users = {tasks[w].request.user_id}

\* C7: at most one worker task is active at any time, and a task is created
\* only when every earlier one has terminated.
C7_SingleWorker ==
  /\ Cardinality(ActiveWorkers) <= 1
  /\ worker_task = Len(tasks)

\* a second worker has been started after the first one terminated
C7_Witness ==
  /\ Len(tasks) = 2
  /\ tasks[1].state = "done"
  /\ tasks[2].state = "exec"
  /\ Len(queue) >= 1

\* C8: whenever the worker finishes a request (callback returned, raised, or
\* cancelled) its caller is afterwards in neither the in-service set nor the
\* queue, so that the caller's next add_request passes the duplicate checks.
C8_Release ==
  [][\A w \in 1..Len(tasks) :
       Finishes(w) =>
         /\ tasks[w].request.user_id \notin processing_users'
         /\ tasks[w].request.user_id \notin QueuedUsers(queue')]_vars

InQueue(i) == i \in QueuedIds(queue)

InCallback(i) ==
  \E w \in 1..Len(tasks) : tasks[w].state = "exec" /\ tasks[w].request.id = i

StopCalled ==
  \/ stop.pc = "waiting"
  \/ \E w \in 1..Len(tasks) : tasks[w].state = "done" \/ tasks[w].must_cancel

\* C11: a request is passed to the callback at most once, and only after
\* add_request accepted it: the requests in the queue have distinct ids, a
\* request enters the queue only in the step that returns Accepted for it, and
\* the request a worker takes was in the queue, leaves it, and is held by no
\* other worker.
C11_AtMostOnce ==
  [][/\ Cardinality(QueuedIds(queue')) = Len(queue')
     /\ \A i \in QueuedIds(queue') \ QueuedIds(queue) :
          /\ ret'.res = "accepted"
          /\ QueuedIds(queue') = QueuedIds(queue) \cup {i}
     /\ \A w \in 1..Len(tasks) :
          Dispatches(w) =>
            /\ tasks'[w].request.id \in QueuedIds(queue)
            /\ QueuedIds(queue') = QueuedIds(queue) \ {tasks'[w].request.id}
            /\ \A v \in 1..Len(tasks) :
                 v # w => tasks'[v].request.id # tasks'[w].request.id]_vars

\* a request is in its callback after a later call drained and refilled the
\* queue around another waiting request
C11_Witness ==
  \E w \in 1..Len(tasks) :
    /\ tasks[w].state = "exec"
    /\ Len(queue) >= 1
    /\ budget = 0

\* C12: when stop() returns the queue is empty, the in-service set is empty
\* and no worker task is active.
C12_DrainOnShutdown ==
  [][(stop.pc = "waiting" /\ stop'.pc = "idle") =>
       /\ queue' = <<>>
       /\ processing_users' = {}
       /\ \A w \in 1..Len(tasks') : tasks'[w].state = "done"]_vars

\* C13: stop() never interrupts a callback: a worker in the callback of a
\* request leaves it only when the callback returns or raises, never by
\* becoming done.
C13_CallbackCompletes ==
  [][\A w \in 1..Len(tasks) :
       tasks[w].state = "exec" => tasks'[w].state # "done"]_vars

\* C14: after stop() was called no add_request returns Accepted or one of the
\* duplicate or rate-limit rejections, none enqueues and none starts a worker.
C14_RejectedAfterStop ==
  [][StopCalled =>
       /\ ret'.res = "none"
       /\ QueuedIds(queue') \subseteq QueuedIds(queue)
       /\ Len(tasks') = Len(tasks)]_vars

\* C15: an add_request whose privilege check answers True is never rejected
\* as rate-limited: once past the duplicate checks it is accepted, whatever
\* the time since the caller's previous request.
C15_PrivilegeBypass ==
  [][(ret'.res # "none" /\ ret'.owner) => ret'.res = "accepted"]_vars

\* an owner is accepted again less than Cooldown after the clock's first
\* reading, when the worker has finished the only request accepted before
C15_Witness ==
  /\ ret.res = "accepted"
  /\ ret.owner
  /\ ret.t < Cooldown + Cooldown
  /\ \A u \in Callers \ {ret.user} : user_last_request[u] = 0
  /\ \E w \in 1..Len(tasks) : tasks[w].state = "idle"

\* C16: an add_request of a privileged caller leaves the whole rate-limit
\* table unchanged.
C16_TableUntouchedByOwner ==
  [][ret'.owner => user_last_request' = user_last_request]_vars

\* C17: the entry of a caller in the rate-limit table changes only in the
\* step in which an add_request of that caller returns Accepted; every other
\* step leaves the table as it was.
C17_TableChangesOnAccept ==
  [][\A u \in Callers :
       user_last_request'[u] # user_last_request[u] =>
         /\ ret'.res = "accepted"
         /\ ret'.user = u
         /\ user_last_request'[u] = ret'.t]_vars

\* a call was rejected as rate-limited at a time other than the one recorded
\* for its caller
C17_Witness ==
  /\ ret.res = "rate_limited"
  /\ user_last_request[ret.user] # 0
  /\ ret.t > user_last_request[ret.user]

\* the tokens of a set of messages
RECURSIVE SetTokens(_)
SetTokens(S) ==
  IF S = {} THEN 0
  ELSE LET m == CHOOSE x \in S : TRUE IN Tokens(m) + SetTokens(S \ {m})

\* C18: add_message calls for one user lose no update: as long as the
\* messages whose call returned True are no more than max_messages and have
\* no more than max_tokens tokens together, each of them is in the stored
\* history once no call is under way.
C18_NoLostUpdate ==
  (/\ \A t \in Clients : db_calls[t].pc = "idle"
   /\ Cardinality(acked) <= max_messages
   /\ SetTokens(acked) <= max_tokens)
    => \A m \in acked : \E i \in 1..Len(memory) : memory[i] = m

\* C19: an add_request that is rejected leaves what can be observed as it
\* was: the requests that wait and the order in which they will be taken, the
\* in-service set, and the worker task and its state.
C19_RejectionChangesNothing ==
  [][ret'.res \in {"being_processed", "in_queue", "rate_limited"} =>
       /\ DrainItems(queue') = DrainItems(queue)
       /\ processing_users' = processing_users
       /\ worker_task' = worker_task
       /\ tasks' = tasks]_vars

\* C20: the timestamp of an accepted request is no less than that of any
\* request inserted before it.
C20_KeyAgreesWithInsertion ==
  [][ret'.res = "accepted" =>
       \A u \in Callers : user_last_request[u] <= ret'.t]_vars

\* C21: the in-service set is exactly the callers of the requests that worker
\* tasks hold, in the callback or in the report of its failure: it is empty
\* when no task holds a request, and the caller of a request that has left
\* the queue and is held is in it.
C21_InServiceIsHeld ==
  processing_users = {tasks[w].request.user_id : w \in Executing}

\* a worker reports the failure of a request while another request waits
C21_Witness ==
  \E w \in 1..Len(tasks) :
    /\ tasks[w].state = "report"
    /\ processing_users = {tasks[w].request.user_id}
    /\ queue # <<>>

\* C22: a worker task ends only because stop() cancelled it: whatever the
\* callback, the report of a failure or the loop itself does, a task that
\* becomes done was cancelled by stop().
C22_ExitsOnlyByStop ==
  [][\A w \in 1..Len(tasks) :
       (tasks[w].state # "done" /\ tasks'[w].state = "done") =>
         tasks[w].must_cancel]_vars

\* C23: every rate-limited rejection reports a remaining wait that is greater
\* than 0 and at most the cooldown.
C23_RemainingInRange ==
  [][ret'.res = "rate_limited" =>
       (ret'.remaining > 0 /\ ret'.remaining <= Cooldown)]_vars

\* C24: the privilege check fails closed.  An add_request that returns while
\* no bot is set, or whose privilege check raised, is answered as a call of an
\* ordinary caller: it is rate-limited exactly when its timestamp is less than
\* the cooldown after the caller's entry, and otherwise accepted with a
\* request of ordinary priority put in the queue.
C24_FailsClosed ==
  [][/\ (~bot /\ ret'.res \in {"accepted", "rate_limited"}) =>
          /\ ~ret'.owner
          /\ ret'.res = "rate_limited" <=>
               ret'.t - user_last_request[ret'.user] < Cooldown
          /\ ret'.res = "accepted" =>
               \E i \in 1..Len(queue') :
                 /\ queue'[i].id \notin QueuedIds(queue)
                 /\ queue'[i].user_id = ret'.user
                 /\ ~queue'[i].is_owner
     /\ \A c \in pending :
          IsOwnerReturn(c, TRUE) =>
            /\ ret'.res \in {"accepted", "rate_limited"}
            /\ ~ret'.owner
            /\ ret'.res = "rate_limited" <=>
                 c.timestamp - user_last_request[c.user_id] < Cooldown
            /\ ret'.res = "accepted" =>
                 \E i \in 1..Len(queue') :
                   /\ queue'[i].id = c.id
                   /\ ~queue'[i].is_owner]_vars

\* the call of an owner returned rate-limited while the bot is set: its
\* privilege check raised
C24_Witness ==
  /\ bot
  /\ ret.res = "rate_limited"
  /\ ret.user \in Owners

\* C25: stop() called while no worker task is active (none was ever started,
\* or the last one is done, as at a second stop()) returns at once and leaves
\* the queue empty, the in-service set empty and no task active; in the state
\* a stop() has left it changes nothing.
C25_StopWithoutWorker ==
  [][(StopBegin /\ NoWorker(worker_task, tasks)) =>
       /\ stop'.pc = "idle"
       /\ queue' = <<>>
       /\ processing_users' = {}
       /\ \A w \in 1..Len(tasks') : tasks'[w].state = "done"
       /\ (queue = <<>> /\ processing_users = {}) =>
            UNCHANGED <<queue, processing_users, user_last_request, worker_task,
                        tasks, pending, order, stop, now, bot, budget>>]_vars

\* the state a stop() has left after requests were accepted, in which a
\* second stop() finds the worker task done
C25_Witness ==
  /\ stop.pc = "idle"
  /\ Len(tasks) >= 1
  /\ \A w \in 1..Len(tasks) : tasks[w].state = "done"
  /\ queue = <<>>
  /\ processing_users = {}
  /\ budget = 0

\* C26: stop() leaves the rate-limit table as it is: no step of stop(), and
\* no end of a worker task it cancelled, changes an entry.
C26_StopKeepsTable ==
  [][(StopBegin \/ StopFinish \/ \E w \in 1..Len(tasks) : WorkerCancelled(w)) =>
       user_last_request' = user_last_request]_vars

\* after a stop() that left every worker task done, an add_request of a
\* caller accepted less than Cooldown before is rejected as rate-limited
C26_Witness ==
  /\ stop.pc = "idle"
  /\ Len(tasks) >= 1
  /\ \A w \in 1..Len(tasks) : tasks[w].state = "done"
  /\ ret.res = "rate_limited"
  /\ ~ret.owner
  /\ ret.t - user_last_request[ret.user] < Cooldown

\* the last n elements of a list, for n no more than its length
Suffix(messages, n) == SubSeq(messages, Len(messages) - n + 1, Len(messages))

\* C27: _apply_memory_limits returns the longest suffix of its input that has
\* no more than max_messages messages and no more than max_tokens tokens.
C27_LongestSuffix ==
  limits.called =>
    LET n == Len(limits.result) IN
    /\ n <= Len(limits.messages)
    /\ limits.result = Suffix(limits.messages, n)
    /\ n <= limits.max_messages
    /\ TotalTokens(limits.result) <= limits.max_tokens
    /\ \A k \in 0..Len(limits.messages) :
         (k <= limits.max_messages
          /\ TotalTokens(Suffix(limits.messages, k)) <= limits.max_tokens) => k <= n

\* C28: deduct_user_credit never drives the balance below zero: the stored
\* credit stays >= 0, the amounts of the calls that returned True add up to no
\* more than the initial balance, and a call that returns while the balance is
\* less than its amount returns failure and leaves the balance as it was.
C28_NeverNegative ==
  [][/\ credit' >= 0
     /\ deducted' <= initial_credit'
     /\ credit' + deducted' = initial_credit'
     /\ \A t \in Clients :
          (deduct_calls'[t].ret # "none" /\ deduct_calls'[t] # deduct_calls[t]
           /\ credit < deduct_calls'[t].amount) =>
            (deduct_calls'[t].ret = "false" /\ credit' = credit)]_vars

\* two calls read a balance that covers either amount but not both: one
\* returned True and the other was refused by the filter of the update
C28_Witness ==
  \E t \in Clients, o \in Clients :
    /\ deduct_calls[t].ret = "true"
    /\ deduct_calls[o].ret = "false"
    /\ deduct_calls[o].pc = "idle"
    /\ deduct_calls[o].current_credit >= deduct_calls[o].amount
    /\ deduct_calls[o].current_credit = deduct_calls[t].current_credit
    /\ credit < deduct_calls[o].amount
    /\ credit = initial_credit - deduct_calls[t].amount

====
